---- MODULE Spec2Model ----
(***************************************************************************)
(* Model of src/src/proxy.ts: the LSP frame parser (MessageParser), the    *)
(* diagnostic filter (filterDiagnostics), the frame encoder                *)
(* (encodeMessage) and the event handlers installed by startProxy.         *)
(*                                                                         *)
(* Bytes and characters are lexical tokens: one token is one byte of a     *)
(* Buffer or one character of a string.  Header tokens are the field name  *)
(* "Content-Length:", a space, decimal digits, CR and LF; "X-" in front of *)
(* the field name spells the name of another field, "X-Content-Length:".   *)
(* Body tokens stand for JSON lexemes:                                     *)
(*    {  }     object delimiters of the message                            *)
(*    J        "jsonrpc":"2.0"                                             *)
(*    i        "id":1                                                      *)
(*    r        "result":{}                                                 *)
(*    F        "method":"foo"                                              *)
(*    M        "method":"textDocument/publishDiagnostics"                  *)
(*    (  )     "params":{ ... }                                            *)
(*    u        "uri":"file:///a"                                           *)
(*    e        "uri":"file:///e-acute", a two-byte character in UTF-8       *)
(*    v        "version":7                                                 *)
(*    [  ]     "diagnostics":[ ... ]                                       *)
(*    1 2 3 4  a diagnostic object with that severity                      *)
(*    d        a diagnostic object without severity                        *)
(*    null     the JSON literal null                                       *)
(*    space    insignificant JSON whitespace                               *)
(*                                                                         *)
(* JSON.stringify writes the members of an object in one fixed order and   *)
(* without whitespace; JSON.parse accepts them in any order.               *)
(*                                                                         *)
(* Node runs every handler to completion, so each handler is one action.   *)
(* The environment is the child process (its output, its exit, a failed    *)
(* spawn), the client (its input and the end of it) and the signals sent   *)
(* to the proxy.  Writes to stdout, stderr and the child's stdin succeed;  *)
(* writes to the log file succeed except under SpecLog, where the file may *)
(* stop being writable.  startProxy registers its handlers in the turn     *)
(* that spawns the child, before any event is dispatched.                  *)
(*                                                                         *)
(* Spec follows the life of the proxy, SpecStream the server-to-client     *)
(* pipeline over many kinds of frames, SpecDuplex both directions          *)
(* together, SpecLog the proxy with a log file that fails.                 *)
(***************************************************************************)
EXTENDS Integers, Sequences, FiniteSets, TLC

\* ------------------------------------------------------------------ bounds
MaxFrames == 2
MaxSignals == 1
MaxThreshold == 4

\* --------------------------------------------------------- bytes and text
CR == "CR"
LF == "LF"
SP == " "
Separator == <<CR, LF, CR, LF>>
Null == -1
PublishDiagnostics == "textDocument/publishDiagnostics"

CONTENT_LENGTH_HEADER == <<"Content-Length:", SP>>

DigitChars == <<"0", "1", "2", "3", "4", "5", "6", "7", "8", "9">>

IsDigit(c) == \E k \in 1..10 : DigitChars[k] = c

DigitValue(c) == (CHOOSE k \in 1..10 : DigitChars[k] = c) - 1

IsSpace(c) == c \in {SP, CR, LF}

\* `${body.length}` : decimal rendering of a non-negative integer
RECURSIVE NumberToString(_)
NumberToString(n) ==
    IF n < 10 THEN <<DigitChars[n + 1]>>
    ELSE NumberToString(n \div 10) \o <<DigitChars[(n % 10) + 1]>>

\* parseInt(s, 10) on a string of decimal digits
RECURSIVE ParseInt(_)
ParseInt(s) ==
    IF s = <<>> THEN 0
    ELSE 10 * ParseInt(SubSeq(s, 1, Len(s) - 1)) + DigitValue(s[Len(s)])

\* Buffer.from(str, "utf-8"): the e-acute character takes two bytes, the
\* replacement character three, every other character one.
RECURSIVE Utf8Encode(_)
Utf8Encode(s) ==
    IF s = <<>> THEN <<>>
    ELSE (CASE Head(s) = "e" -> <<"xC3", "xA9">>
            [] Head(s) = "?" -> <<"xEF", "xBF", "xBD">>
            [] OTHER -> <<Head(s)>>) \o Utf8Encode(Tail(s))

\* buf.toString("utf-8"): ill-formed bytes decode to the replacement
\* character "?".
RECURSIVE Utf8Decode(_)
Utf8Decode(b) ==
    IF b = <<>> THEN <<>>
    ELSE IF Len(b) >= 2 /\ b[1] = "xC3" /\ b[2] = "xA9"
         THEN <<"e">> \o Utf8Decode(SubSeq(b, 3, Len(b)))
    ELSE IF Len(b) >= 3 /\ b[1] = "xEF" /\ b[2] = "xBF" /\ b[3] = "xBD"
         THEN <<"?">> \o Utf8Decode(SubSeq(b, 4, Len(b)))
    ELSE IF b[1] \in {"xC3", "xA9", "xEF", "xBF", "xBD"}
         THEN <<"?">> \o Utf8Decode(Tail(b))
    ELSE <<b[1]>> \o Utf8Decode(Tail(b))

\* buf.toString("ascii"): the high bit of every byte is dropped.
AsciiChar(b) ==
    CASE b = "xC3" -> "C"
      [] b = "xA9" -> ")"
      [] b = "xEF" -> "o"
      [] b = "xBF" -> "?"
      [] b = "xBD" -> "="
      [] OTHER -> b

AsciiDecode(b) == [k \in 1..Len(b) |-> AsciiChar(b[k])]

\* ------------------------------------------------------------ JSON values
Absent == <<>>

NoMessage ==
    [kind |-> "null", jsonrpc |-> Absent, id |-> Absent, method |-> Absent,
     result |-> Absent, params |-> Absent]

EmptyObject == [NoMessage EXCEPT !.kind = "object"]

EmptyParams == [uri |-> Absent, version |-> Absent, diagnostics |-> Absent]

DiagnosticOf(c) ==
    [severity |-> IF c = "d" THEN Absent ELSE <<DigitValue(c)>>]

IsDiagnosticChar(c) == c \in {"1", "2", "3", "4", "d"}

StripSpace(s) == SelectSeq(s, LAMBDA c : c # SP)

\* Index of the first occurrence of c in s at or after from, 0 if none.
RECURSIVE FindChar(_, _, _)
FindChar(s, c, from) ==
    IF from > Len(s) THEN 0
    ELSE IF s[from] = c THEN from
    ELSE FindChar(s, c, from + 1)

\* The elements of "diagnostics":[ ... ]; ok is FALSE on a token that is not
\* a diagnostic object.
ParseDiagnostics(s) ==
    [ok    |-> \A k \in 1..Len(s) : IsDiagnosticChar(s[k]),
     value |-> [k \in 1..Len(s) |->
                   IF IsDiagnosticChar(s[k]) THEN DiagnosticOf(s[k])
                   ELSE DiagnosticOf("d")]]

\* The members of "params":{ ... }; a repeated key keeps its last value.
RECURSIVE ParseParams(_, _)
ParseParams(s, acc) ==
    IF s = <<>> THEN [ok |-> TRUE, value |-> acc]
    ELSE IF Head(s) = "u" \/ Head(s) = "e"
         THEN ParseParams(Tail(s), [acc EXCEPT !.uri = <<Head(s)>>])
    ELSE IF Head(s) = "v"
         THEN ParseParams(Tail(s), [acc EXCEPT !.version = <<"7">>])
    ELSE IF Head(s) = "["
         THEN LET close == FindChar(s, "]", 2)
                  inner == IF close = 0 THEN [ok |-> FALSE, value |-> <<>>]
                           ELSE ParseDiagnostics(SubSeq(s, 2, close - 1))
              IN  IF close = 0 \/ ~inner.ok THEN [ok |-> FALSE, value |-> acc]
                  ELSE ParseParams(SubSeq(s, close + 1, Len(s)),
                                   [acc EXCEPT !.diagnostics = <<inner.value>>])
    ELSE [ok |-> FALSE, value |-> acc]

\* The members of the message object; a repeated key keeps its last value.
RECURSIVE ParseMembers(_, _)
ParseMembers(s, acc) ==
    IF s = <<>> THEN [ok |-> TRUE, value |-> acc]
    ELSE IF Head(s) = "J"
         THEN ParseMembers(Tail(s), [acc EXCEPT !.jsonrpc = <<"2.0">>])
    ELSE IF Head(s) = "i"
         THEN ParseMembers(Tail(s), [acc EXCEPT !.id = <<"1">>])
    ELSE IF Head(s) = "r"
         THEN ParseMembers(Tail(s), [acc EXCEPT !.result = <<"{}">>])
    ELSE IF Head(s) = "F"
         THEN ParseMembers(Tail(s), [acc EXCEPT !.method = <<"foo">>])
    ELSE IF Head(s) = "M"
         THEN ParseMembers(Tail(s),
                           [acc EXCEPT !.method = <<PublishDiagnostics>>])
    ELSE IF Head(s) = "("
         THEN LET close == FindChar(s, ")", 2)
                  inner == IF close = 0 THEN [ok |-> FALSE, value |-> EmptyParams]
                           ELSE ParseParams(SubSeq(s, 2, close - 1), EmptyParams)
              IN  IF close = 0 \/ ~inner.ok THEN [ok |-> FALSE, value |-> acc]
                  ELSE ParseMembers(SubSeq(s, close + 1, Len(s)),
                                    [acc EXCEPT !.params = <<inner.value>>])
    ELSE [ok |-> FALSE, value |-> acc]

\* JSON.parse(text): ok is FALSE where JSON.parse throws a SyntaxError.
JsonParse(text) ==
    LET s == StripSpace(text)
    IN  IF s = <<"null">> THEN [ok |-> TRUE, value |-> NoMessage]
        ELSE IF Len(s) >= 2 /\ s[1] = "{" /\ s[Len(s)] = "}"
             THEN ParseMembers(SubSeq(s, 2, Len(s) - 1), EmptyObject)
        ELSE [ok |-> FALSE, value |-> NoMessage]

DiagnosticText(d) ==
    IF d.severity = Absent THEN "d" ELSE DigitChars[d.severity[1] + 1]

ParamsText(p) ==
    <<"(">> \o p.uri
    \o (IF p.version = Absent THEN <<>> ELSE <<"v">>)
    \o (IF p.diagnostics = Absent THEN <<>>
        ELSE <<"[">>
             \o [k \in 1..Len(p.diagnostics[1]) |->
                    DiagnosticText(p.diagnostics[1][k])]
             \o <<"]">>)
    \o <<")">>

\* JSON.stringify(msg): no whitespace, every member once.
JsonStringify(msg) ==
    IF msg.kind = "null" THEN <<"null">>
    ELSE <<"{">>
         \o (IF msg.jsonrpc = Absent THEN <<>> ELSE <<"J">>)
         \o (IF msg.id = Absent THEN <<>> ELSE <<"i">>)
         \o (IF msg.method = Absent THEN <<>>
             ELSE IF msg.method[1] = PublishDiagnostics THEN <<"M">>
             ELSE <<"F">>)
         \o (IF msg.result = Absent THEN <<>> ELSE <<"r">>)
         \o (IF msg.params = Absent THEN <<>> ELSE ParamsText(msg.params[1]))
         \o <<"}">>

\* Buffer.from(str, "ascii"): one byte per character, its low eight bits.
AsciiByte(c) ==
    CASE c = "e" -> "xE9"
      [] c = "?" -> "xFD"
      [] OTHER -> c

AsciiEncode(s) == [k \in 1..Len(s) |-> AsciiByte(s[k])]

\* ------------------------------------------------------------------ state
VARIABLES
    config,        \* the config object: dropAll, minSeverity, debug
    argv,          \* process.argv.slice(2)
    script,        \* the frames the child writes to its stdout over the run
    fed,           \* how many bytes of the child's stdout have been delivered
    buffer,        \* MessageParser.buffer
    contentLength, \* MessageParser.contentLength, Null for null
    stdout,        \* the buffers written to process.stdout, in order
    stderr,        \* the reports written to process.stderr, in order
    logFile,       \* the lines appended to the log file, in order
    calls,         \* history: one record per invocation of the onMessage callback
    wholeFrames,   \* history: frames lying wholly inside the last chunk fed
    proxy,         \* "init", "running" or "exited"
    exitStatus,    \* the status given to process.exit, Null while running
    child,         \* "none", "error" (spawn failed), "running" or "exited"
    childCode,     \* the child's exit code, Null when it was killed by a signal
    spawns,        \* number of calls of spawn
    received,      \* the signals delivered to the proxy, in order
    childSignals,  \* the signals sent to the child with child.kill, in order
    clientInput,   \* the bytes the client sends to the proxy's stdin over the run
    sentIn,        \* how many bytes of clientInput have been delivered
    stdinEnded,    \* the proxy's stdin has reported end-of-input
    childStdin,    \* the bytes written to child.stdin, in order
    childStdinEnded, \* child.stdin.end() has been called
    logBroken      \* appendFileSync on the log file throws from now on

parserVars == <<fed, buffer, contentLength, stdout, calls, wholeFrames>>
lifeVars == <<proxy, exitStatus, child, childCode, spawns>>
signalVars == <<received, childSignals>>
stdinVars == <<clientInput, sentIn, stdinEnded, childStdin, childStdinEnded>>
vars ==
    <<config, argv, script, parserVars, stderr, logFile, lifeVars, signalVars,
      stdinVars, logBroken>>

\* ----------------------------------------------------------------- logging
\* log(...args): appends one line when config.debug, otherwise does nothing.
log(file, line) == IF config.debug THEN Append(file, line) ELSE file

\* Variant: the header ends in two bare line feeds.
encodeMessageBareNewlines(msg) ==
    LET body == Utf8Encode(JsonStringify(msg))
        header == CONTENT_LENGTH_HEADER \o NumberToString(Len(body))
                  \o <<LF, LF>>
    IN  AsciiEncode(header) \o body

\* ----------------------------------------------------------------- encoder
\* Variant: the header declares the number of characters of the body.
encodeMessageChars(msg) ==
    LET text == JsonStringify(msg)
        header == CONTENT_LENGTH_HEADER \o NumberToString(Len(text)) \o Separator
    IN  AsciiEncode(header) \o Utf8Encode(text)

\* encodeMessage
encodeMessage(msg) ==
    LET body == Utf8Encode(JsonStringify(msg))
        header == CONTENT_LENGTH_HEADER \o NumberToString(Len(body)) \o Separator
    IN  AsciiEncode(header) \o body

\* ------------------------------------------------------------------ filter
\* d.severity ?? 1
SeverityOf(d) == IF d.severity = Absent THEN 1 ELSE d.severity[1]

\* Variant: the comparison is strict.
KeepDiagnosticStrict(d) == SeverityOf(d) < config.minSeverity

KeepDiagnostic(d) == SeverityOf(d) <= config.minSeverity

\* Variant: a message without a method is suppressed.
filterDropsMethodless(msg) ==
    IF msg.kind = "null"
    THEN [ret |-> "throw", msg |-> msg, lines |-> <<>>]
    ELSE IF msg.method = Absent
    THEN [ret |-> "null", msg |-> msg, lines |-> <<>>]
    ELSE IF msg.method # <<PublishDiagnostics>>
    THEN [ret |-> "message", msg |-> msg, lines |-> <<>>]
    ELSE IF config.dropAll
    THEN [ret |-> "null", msg |-> msg, lines |-> <<"Dropping diagnostics">>]
    ELSE IF msg.params = Absent
    THEN [ret |-> "throw", msg |-> msg, lines |-> <<>>]
    ELSE IF msg.params[1].diagnostics = Absent
    THEN [ret |-> "throw", msg |-> msg, lines |-> <<>>]
    ELSE LET params == msg.params[1]
             filtered == SelectSeq(params.diagnostics[1], KeepDiagnostic)
         IN  [ret |-> "message",
              msg |-> [msg EXCEPT !.params =
                          <<[params EXCEPT !.diagnostics = <<filtered>>]>>],
              lines |-> <<"Filtered diagnostics">>]

\* Variant: drop-all applies only to a non-empty diagnostics sequence.
filterDropsNonEmpty(msg) ==
    IF msg.kind = "null"
    THEN [ret |-> "throw", msg |-> msg, lines |-> <<>>]
    ELSE IF msg.method # <<PublishDiagnostics>>
    THEN [ret |-> "message", msg |-> msg, lines |-> <<>>]
    ELSE IF msg.params = Absent
    THEN [ret |-> "throw", msg |-> msg, lines |-> <<>>]
    ELSE IF msg.params[1].diagnostics = Absent
    THEN [ret |-> "throw", msg |-> msg, lines |-> <<>>]
    ELSE IF config.dropAll /\ msg.params[1].diagnostics[1] # <<>>
    THEN [ret |-> "null", msg |-> msg, lines |-> <<"Dropping diagnostics">>]
    ELSE LET params == msg.params[1]
             filtered == SelectSeq(params.diagnostics[1], KeepDiagnostic)
         IN  [ret |-> "message",
              msg |-> [msg EXCEPT !.params =
                          <<[params EXCEPT !.diagnostics = <<filtered>>]>>],
              lines |-> <<"Filtered diagnostics">>]

\* Variant: the severity path builds a fresh notification from the method,
\* the uri and the filtered diagnostics.
filterRebuilds(msg) ==
    IF msg.kind = "null"
    THEN [ret |-> "throw", msg |-> msg, lines |-> <<>>]
    ELSE IF msg.method # <<PublishDiagnostics>>
    THEN [ret |-> "message", msg |-> msg, lines |-> <<>>]
    ELSE IF config.dropAll
    THEN [ret |-> "null", msg |-> msg, lines |-> <<"Dropping diagnostics">>]
    ELSE IF msg.params = Absent
    THEN [ret |-> "throw", msg |-> msg, lines |-> <<>>]
    ELSE IF msg.params[1].diagnostics = Absent
    THEN [ret |-> "throw", msg |-> msg, lines |-> <<>>]
    ELSE LET params == msg.params[1]
             filtered == SelectSeq(params.diagnostics[1], KeepDiagnostic)
         IN  [ret |-> "message",
              msg |-> [EmptyObject EXCEPT
                          !.jsonrpc = msg.jsonrpc,
                          !.method = msg.method,
                          !.params =
                             <<[EmptyParams EXCEPT
                                  !.uri = params.uri,
                                  !.diagnostics = <<filtered>>]>>],
              lines |-> <<"Filtered diagnostics">>]

\* filterDiagnostics(msg): ret is "message" (msg holds the returned message),
\* "null" (suppressed) or "throw" (a TypeError left the function); lines are
\* the log calls made.
filterDiagnostics(msg) ==
    IF msg.kind = "null"
    THEN [ret |-> "throw", msg |-> msg, lines |-> <<>>]
    ELSE IF msg.method # <<PublishDiagnostics>>
    THEN [ret |-> "message", msg |-> msg, lines |-> <<>>]
    ELSE IF config.dropAll
    THEN [ret |-> "null", msg |-> msg, lines |-> <<"Dropping diagnostics">>]
    ELSE IF msg.params = Absent
    THEN [ret |-> "throw", msg |-> msg, lines |-> <<>>]
    ELSE IF msg.params[1].diagnostics = Absent
    THEN [ret |-> "throw", msg |-> msg, lines |-> <<>>]
    ELSE LET params == msg.params[1]
             filtered == SelectSeq(params.diagnostics[1], KeepDiagnostic)
         IN  [ret |-> "message",
              msg |-> [msg EXCEPT !.params =
                          <<[params EXCEPT !.diagnostics = <<filtered>>]>>],
              lines |-> <<"Filtered diagnostics">>]

\* ------------------------------------------------------------------ parser
\* this.buffer.indexOf("\r\n\r\n"), zero-based; -1 when there is none.
RECURSIVE IndexOfSeparator(_, _)
IndexOfSeparator(buf, from) ==
    IF from + 3 > Len(buf) THEN -1
    ELSE IF SubSeq(buf, from, from + 3) = Separator THEN from - 1
    ELSE IndexOfSeparator(buf, from + 1)

IsLengthName(c) == c \in {"Content-Length:", "content-length:", "CONTENT-LENGTH:"}

RECURSIVE SkipSpace(_, _)
SkipSpace(s, p) ==
    IF p <= Len(s) /\ IsSpace(s[p]) THEN SkipSpace(s, p + 1) ELSE p

RECURSIVE DigitRun(_, _)
DigitRun(s, p) ==
    IF p <= Len(s) /\ IsDigit(s[p]) THEN <<s[p]>> \o DigitRun(s, p + 1) ELSE <<>>

\* headerBlock.match(/Content-Length:\s*(\d+)/i): the digits captured by the
\* leftmost match, the empty sequence when nothing matches.
RECURSIVE HeaderMatch(_, _)
HeaderMatch(s, p) ==
    IF p > Len(s) THEN <<>>
    ELSE LET digits == IF IsLengthName(s[p])
                       THEN DigitRun(s, SkipSpace(s, p + 1))
                       ELSE <<>>
         IN  IF digits # <<>> THEN digits ELSE HeaderMatch(s, p + 1)

\* Variant: the callback writes whatever the filter returned, null included.
OnMessageUnchecked(st, parsed) ==
    IF ~parsed.ok
    THEN [st EXCEPT !.logFile = log(@, "Failed to parse JSON")]
    ELSE LET f == filterDiagnostics(parsed.value)
             wrote == IF f.ret = "message" THEN <<encodeMessage(f.msg)>>
                      ELSE IF f.ret = "null" THEN <<encodeMessage(NoMessage)>>
                      ELSE <<>>
         IN  [st EXCEPT
                !.stdout = @ \o wrote,
                !.calls = Append(@, [msg |-> parsed.value, ret |-> f.ret,
                                     out |-> f.msg, wrote |-> wrote])]

\* Variant: a callback that throws makes the parser drop what it has
\* buffered.
OnMessageThrowDropsRest(st, parsed) ==
    IF ~parsed.ok
    THEN [st EXCEPT !.logFile = log(@, "Failed to parse JSON")]
    ELSE LET f == filterDiagnostics(parsed.value)
             wrote == IF f.ret = "message" THEN <<encodeMessage(f.msg)>>
                      ELSE <<>>
             logged == IF f.lines = <<>> THEN st.logFile
                       ELSE log(st.logFile, f.lines[1])
         IN  [st EXCEPT
                !.stdout = @ \o wrote,
                !.calls = Append(@, [msg |-> parsed.value, ret |-> f.ret,
                                     out |-> f.msg, wrote |-> wrote]),
                !.buffer = IF f.ret = "throw" THEN <<>> ELSE @,
                !.logFile = IF f.ret = "throw"
                            THEN log(logged, "Failed to parse JSON")
                            ELSE logged]

\* The callback startProxy passes to parser.feed, run inside drain's try
\* block: st is the state so far, parsed the result of JSON.parse(body).
OnMessage(st, parsed) ==
    IF ~parsed.ok
    THEN [st EXCEPT !.logFile = log(@, "Failed to parse JSON")]
    ELSE LET f == filterDiagnostics(parsed.value)
             wrote == IF f.ret = "message" THEN <<encodeMessage(f.msg)>>
                      ELSE <<>>
             logged == IF f.lines = <<>> THEN st.logFile
                       ELSE log(st.logFile, f.lines[1])
         IN  [st EXCEPT
                !.stdout = @ \o wrote,
                !.calls = Append(@, [msg |-> parsed.value, ret |-> f.ret,
                                     out |-> f.msg, wrote |-> wrote]),
                !.logFile = IF f.ret = "throw"
                            THEN log(logged, "Failed to parse JSON")
                            ELSE logged]

\* Variant: drain handles one header block or one body and returns.
drainOnce(st) ==
    LET headerEnd == IndexOfSeparator(st.buffer, 1)
        headerBlock == AsciiDecode(SubSeq(st.buffer, 1, headerEnd))
        match == HeaderMatch(headerBlock, 1)
        rest == SubSeq(st.buffer, headerEnd + 5, Len(st.buffer))
    IN  IF st.contentLength = Null /\ headerEnd = -1 THEN st
        ELSE IF st.contentLength = Null /\ match = <<>>
        THEN [st EXCEPT !.buffer = rest]
        ELSE LET len == IF st.contentLength = Null THEN ParseInt(match)
                        ELSE st.contentLength
                 buf == IF st.contentLength = Null THEN rest ELSE st.buffer
             IN  IF Len(buf) < len
                 THEN [st EXCEPT !.contentLength = len, !.buffer = buf]
                 ELSE LET body == Utf8Decode(SubSeq(buf, 1, len))
                          after == [st EXCEPT
                                      !.buffer = SubSeq(buf, len + 1, Len(buf)),
                                      !.contentLength = Null]
                      IN  OnMessage(after, JsonParse(body))

\* Variant: after a header block without a length field drain returns, and
\* the bytes behind the block wait for the next chunk.
RECURSIVE drainStopsAtMalformed(_)
drainStopsAtMalformed(st) ==
    LET headerEnd == IndexOfSeparator(st.buffer, 1)
        headerBlock == AsciiDecode(SubSeq(st.buffer, 1, headerEnd))
        match == HeaderMatch(headerBlock, 1)
        rest == SubSeq(st.buffer, headerEnd + 5, Len(st.buffer))
    IN  IF st.contentLength = Null /\ headerEnd = -1 THEN st
        ELSE IF st.contentLength = Null /\ match = <<>>
        THEN [st EXCEPT
                !.logFile = log(@, "Malformed header, skipping"),
                !.buffer = rest]
        ELSE LET len == IF st.contentLength = Null THEN ParseInt(match)
                        ELSE st.contentLength
                 buf == IF st.contentLength = Null THEN rest ELSE st.buffer
             IN  IF Len(buf) < len
                 THEN [st EXCEPT !.contentLength = len, !.buffer = buf]
                 ELSE LET body == Utf8Decode(SubSeq(buf, 1, len))
                          after == [st EXCEPT
                                      !.buffer = SubSeq(buf, len + 1, Len(buf)),
                                      !.contentLength = Null]
                      IN  drainStopsAtMalformed(
                              OnMessage(after, JsonParse(body)))

\* Variant: a body that is not JSON makes the parser drop all it has
\* buffered.
RECURSIVE drainResetsOnBadBody(_)
drainResetsOnBadBody(st) ==
    LET headerEnd == IndexOfSeparator(st.buffer, 1)
        headerBlock == AsciiDecode(SubSeq(st.buffer, 1, headerEnd))
        match == HeaderMatch(headerBlock, 1)
        rest == SubSeq(st.buffer, headerEnd + 5, Len(st.buffer))
    IN  IF st.contentLength = Null /\ headerEnd = -1 THEN st
        ELSE IF st.contentLength = Null /\ match = <<>>
        THEN drainResetsOnBadBody([st EXCEPT
                      !.logFile = log(@, "Malformed header, skipping"),
                      !.buffer = rest])
        ELSE LET len == IF st.contentLength = Null THEN ParseInt(match)
                        ELSE st.contentLength
                 buf == IF st.contentLength = Null THEN rest ELSE st.buffer
             IN  IF Len(buf) < len
                 THEN [st EXCEPT !.contentLength = len, !.buffer = buf]
                 ELSE LET body == Utf8Decode(SubSeq(buf, 1, len))
                          parsed == JsonParse(body)
                          after == [st EXCEPT
                                      !.buffer =
                                         IF parsed.ok
                                         THEN SubSeq(buf, len + 1, Len(buf))
                                         ELSE <<>>,
                                      !.contentLength = Null]
                      IN  drainResetsOnBadBody(OnMessage(after, parsed))

\* Variant: drain waits for one byte more than the declared length.
RECURSIVE drainOneByteLate(_)
drainOneByteLate(st) ==
    LET headerEnd == IndexOfSeparator(st.buffer, 1)
        headerBlock == AsciiDecode(SubSeq(st.buffer, 1, headerEnd))
        match == HeaderMatch(headerBlock, 1)
        rest == SubSeq(st.buffer, headerEnd + 5, Len(st.buffer))
    IN  IF st.contentLength = Null /\ headerEnd = -1 THEN st
        ELSE IF st.contentLength = Null /\ match = <<>>
        THEN drainOneByteLate([st EXCEPT
                      !.logFile = log(@, "Malformed header, skipping"),
                      !.buffer = rest])
        ELSE LET len == IF st.contentLength = Null THEN ParseInt(match)
                        ELSE st.contentLength
                 buf == IF st.contentLength = Null THEN rest ELSE st.buffer
             IN  IF Len(buf) <= len
                 THEN [st EXCEPT !.contentLength = len, !.buffer = buf]
                 ELSE LET body == Utf8Decode(SubSeq(buf, 1, len))
                          after == [st EXCEPT
                                      !.buffer = SubSeq(buf, len + 1, Len(buf)),
                                      !.contentLength = Null]
                      IN  drainOneByteLate(OnMessage(after, JsonParse(body)))

\* MessageParser.drain: the while (true) loop, one iteration per unfolding.
RECURSIVE drain(_)
drain(st) ==
    LET headerEnd == IndexOfSeparator(st.buffer, 1)
        headerBlock == AsciiDecode(SubSeq(st.buffer, 1, headerEnd))
        match == HeaderMatch(headerBlock, 1)
        rest == SubSeq(st.buffer, headerEnd + 5, Len(st.buffer))
    IN  IF st.contentLength = Null /\ headerEnd = -1 THEN st
        ELSE IF st.contentLength = Null /\ match = <<>>
        THEN drain([st EXCEPT
                      !.logFile = log(@, "Malformed header, skipping"),
                      !.buffer = rest])
        ELSE LET len == IF st.contentLength = Null THEN ParseInt(match)
                        ELSE st.contentLength
                 buf == IF st.contentLength = Null THEN rest ELSE st.buffer
             IN  IF Len(buf) < len
                 THEN [st EXCEPT !.contentLength = len, !.buffer = buf]
                 ELSE LET body == Utf8Decode(SubSeq(buf, 1, len))
                          after == [st EXCEPT
                                      !.buffer = SubSeq(buf, len + 1, Len(buf)),
                                      !.contentLength = Null]
                      IN  drain(OnMessage(after, JsonParse(body)))

\* Variant: feed replaces the buffer by the chunk.
feedReplacing(st, chunk) == drain([st EXCEPT !.buffer = chunk])

\* MessageParser.feed
feed(st, chunk) == drain([st EXCEPT !.buffer = @ \o chunk])

\* ------------------------------------------------- the child's stdout
\* A frame as a language server writes it: the header block, the separator
\* and the UTF-8 bytes of the body text.  valid marks a frame whose header
\* block holds the length field and whose body JSON.parse accepts (an
\* object, or null).
Frame(headerBefore, name, gap, bodyText, valid) ==
    LET body == Utf8Encode(bodyText)
    IN  [bytes |-> headerBefore \o <<name>> \o gap \o NumberToString(Len(body))
                   \o Separator \o body,
         text  |-> bodyText,
         valid |-> valid]

PlainFrame(bodyText) == Frame(<<>>, "Content-Length:", <<SP>>, bodyText, TRUE)

FooText == <<"{", "J", "F", "}">>
ResponseText == <<"{", "J", "i", "r", "}">>
PdText(uri, diags) ==
    <<"{", "J", "M", "(", uri, "[">> \o diags \o <<"]", ")", "}">>

DiagnosticLists ==
    {<<>>, <<"1">>, <<"4">>, <<"d">>, <<"1", "4">>, <<"4", "1">>,
     <<"3", "d">>, <<"2", "2">>, <<"4", "3">>}

\* Bodies that JSON.parse accepts and that are message objects.
RichTexts ==
    {FooText, ResponseText, <<"{", SP, "F", SP, "J", "}", SP>>,
     <<"{", "J", "M", "(", "v", "e", "[", "2", "]", ")", "}">>,
     <<"{", "J", "M", "(", "u", ")", "}">>, <<"{", "J", "M", "}">>,
     <<"{", "J", "i", "M", "(", "v", "u", "[", "1", "4", "]", ")", "}">>}
    \cup {PdText("u", d) : d \in DiagnosticLists}

RichFrames ==
    {PlainFrame(t) : t \in RichTexts}
    \cup {Frame(<<>>, "content-length:", <<>>, FooText, TRUE),
          Frame(<<"Content-Type:", CR, LF>>, "Content-Length:", <<SP>>,
                FooText, TRUE)}

CoreFrames == {PlainFrame(FooText), PlainFrame(PdText("u", <<"1", "4">>))}

\* Frames the parser cannot decode: no length field, or a body that is not
\* JSON.
BrokenFrames ==
    {[bytes |-> <<"X-Junk:">> \o Separator, text |-> <<>>, valid |-> FALSE],
     Frame(<<>>, "Content-Length:", <<SP>>, <<"{", "F">>, FALSE)}

\* Frames whose header block holds the length field and another field: one
\* before it whose name ends in the characters of the length field's name
\* ("X-Content-Length: 9", the token "X-" followed by the name), one after
\* it, and one before it with the length field's name in capitals.
HeaderFrames ==
    {Frame(<<"X-", "Content-Length:", SP, "9", CR, LF>>, "Content-Length:",
           <<SP>>, FooText, TRUE),
     [bytes |-> <<"Content-Length:", SP, "4", CR, LF, "Content-Type:", SP, "9">>
                \o Separator \o Utf8Encode(FooText),
      text |-> FooText, valid |-> TRUE],
     Frame(<<"Content-Type:", SP, "9", CR, LF>>, "CONTENT-LENGTH:", <<SP>>,
           FooText, TRUE)}

\* Bodies JSON.parse accepts and the callback may fail on: null, and
\* publishDiagnostics without params or without a diagnostics sequence.
FailingTexts ==
    {<<"null">>, <<"{", "J", "M", "}">>,
     <<"{", "J", "M", "(", "u", ")", "}">>}

RECURSIVE SeqsUpTo(_, _)
SeqsUpTo(S, n) ==
    IF n = 0 THEN {<<>>}
    ELSE LET shorter == SeqsUpTo(S, n - 1)
         IN  shorter \cup {Append(q, x) : q \in shorter, x \in S}

Scripts ==
    {<<f>> : f \in RichFrames \cup BrokenFrames}
    \cup (SeqsUpTo(CoreFrames, MaxFrames) \ {<<>>})
    \cup {<<PlainFrame(ResponseText), PlainFrame(PdText("u", <<"4">>)),
            PlainFrame(ResponseText)>>}
    \cup {<<b, PlainFrame(FooText)>> : b \in BrokenFrames}
    \cup {<<PlainFrame(ResponseText), b, PlainFrame(FooText)>> :
             b \in BrokenFrames}
    \cup {<<f>> : f \in HeaderFrames}
    \cup {<<PlainFrame(<<"null">>)>>}
    \cup {<<PlainFrame(t), PlainFrame(FooText)>> : t \in FailingTexts}

\* The child's output in the runs that follow the whole life of the proxy.
LifeScripts ==
    {<<PlainFrame(PdText("u", <<"1", "4">>)), PlainFrame(FooText)>>}

RECURSIVE Flatten(_)
Flatten(seqs) ==
    IF seqs = <<>> THEN <<>> ELSE Head(seqs) \o Flatten(Tail(seqs))

BytesOf(items) == Flatten([k \in 1..Len(items) |-> items[k].bytes])

Stream == BytesOf(script)

\* Offset in Stream of the last byte of the k-th frame of the script.
FrameEnd(k) == Len(BytesOf(SubSeq(script, 1, k)))

\* ------------------------------------------------------------ environment
Thresholds == 0..MaxThreshold

\* config (proxy.ts 51-55), every value the three variables can resolve to
Configs ==
    [dropAll : BOOLEAN, minSeverity : Thresholds, debug : BOOLEAN]

ExitCodes == {0, 3}
Signals == {"SIGTERM", "SIGINT"}

ParserState ==
    [buffer |-> buffer, contentLength |-> contentLength, stdout |-> stdout,
     calls |-> calls, logFile |-> logFile]

\* A parser as new MessageParser() leaves it, with nothing written yet.
FreshState ==
    [buffer |-> <<>>, contentLength |-> Null, stdout |-> <<>>,
     calls |-> <<>>, logFile |-> <<>>]

Init ==
    /\ config \in Configs
    /\ argv \in {<<>>, <<"server">>}
    /\ script \in LifeScripts
    /\ fed = 0
    /\ buffer = <<>>
    /\ contentLength = Null
    /\ stdout = <<>>
    /\ stderr = <<>>
    /\ logFile = <<>>
    /\ calls = <<>>
    /\ wholeFrames = 0
    /\ proxy = "init"
    /\ exitStatus = Null
    /\ child = "none"
    /\ childCode = Null
    /\ spawns = 0
    /\ received = <<>>
    /\ childSignals = <<>>
    /\ clientInput = <<>>
    /\ sentIn = 0
    /\ stdinEnded = FALSE
    /\ childStdin = <<>>
    /\ childStdinEnded = FALSE
    /\ logBroken = FALSE

\* startProxy(): the usage exit, or the spawn and the registration of the
\* handlers.  A failed spawn leaves the child in "error": Node reports it
\* with the 'error' event before any other event is dispatched.
StartProxy ==
    /\ proxy = "init"
    /\ IF argv = <<>>
       THEN /\ stderr' = Append(stderr, "Usage")
            /\ proxy' = "exited"
            /\ exitStatus' = 1
            /\ UNCHANGED <<child, spawns, logFile>>
       ELSE /\ logFile' = log(log(logFile, "Starting proxy"), "Config")
            /\ spawns' = spawns + 1
            /\ \E started \in BOOLEAN :
                  child' = IF started THEN "running" ELSE "error"
            /\ proxy' = "running"
            /\ UNCHANGED <<stderr, exitStatus>>
    /\ UNCHANGED <<config, argv, script, stdinVars, logBroken,
                   parserVars, childCode, signalVars>>

\* Variant: a failed spawn is tried again.
OnChildErrorRetry ==
    /\ proxy = "running"
    /\ child = "error"
    /\ spawns < 2
    /\ stderr' = Append(stderr, "Failed to start LSP server")
    /\ spawns' = spawns + 1
    /\ \E started \in BOOLEAN : child' = IF started THEN "running" ELSE "error"
    /\ UNCHANGED <<config, argv, script, stdinVars, logBroken,
                   parserVars, logFile, proxy, exitStatus,
                   childCode, signalVars>>

\* child.on("error", ...)
OnChildError ==
    /\ proxy = "running"
    /\ child = "error"
    /\ stderr' = Append(stderr, "Failed to start LSP server")
    /\ proxy' = "exited"
    /\ exitStatus' = 1
    /\ UNCHANGED <<config, argv, script, stdinVars, logBroken,
                   parserVars, logFile, child, childCode,
                   spawns, signalVars>>

\* The child process ends: with an exit code, or killed by a signal (Null).
\* It has written its whole script by then.  What the proxy has not read yet
\* stays in the pipe and is still delivered by OnStdoutData: Node emits
\* 'exit' while the child's stdio streams may still be open.
ChildTerminates ==
    /\ child = "running"
    /\ \E code \in ExitCodes \cup {Null} : childCode' = code
    /\ child' = "exited"
    /\ UNCHANGED <<config, argv, script, stdinVars, logBroken,
                   parserVars, stderr, logFile, proxy,
                   exitStatus, spawns, signalVars>>

\* Variant: a child killed by a signal gives status 1.
OnChildExitOne ==
    /\ proxy = "running"
    /\ child = "exited"
    /\ logFile' = log(logFile, "LSP server exited")
    /\ proxy' = "exited"
    /\ exitStatus' = IF childCode = Null THEN 1 ELSE childCode
    /\ UNCHANGED <<config, argv, script, stdinVars, logBroken,
                   parserVars, stderr, child, childCode,
                   spawns, signalVars>>

\* child.on("exit", (code) => ...)
OnChildExit ==
    /\ proxy = "running"
    /\ child = "exited"
    /\ logFile' = log(logFile, "LSP server exited")
    /\ proxy' = "exited"
    /\ exitStatus' = IF childCode = Null THEN 0 ELSE childCode
    /\ UNCHANGED <<config, argv, script, stdinVars, logBroken,
                   parserVars, stderr, child, childCode,
                   spawns, signalVars>>

\* Variant: the frames of a chunk are written ahead of the earlier output.
OnStdoutDataNewestFirst ==
    /\ proxy = "running"
    /\ child \in {"running", "exited"}
    /\ LET stream == Stream
           ends == [k \in 0..Len(script) |-> FrameEnd(k)]
       IN  \E n \in 1..(Len(stream) - fed) :
              LET chunk == SubSeq(stream, fed + 1, fed + n)
                  st == feed(ParserState, chunk)
              IN  /\ fed' = fed + n
                  /\ buffer' = st.buffer
                  /\ contentLength' = st.contentLength
                  /\ stdout' =
                        SubSeq(st.stdout, Len(stdout) + 1, Len(st.stdout))
                        \o stdout
                  /\ calls' = st.calls
                  /\ logFile' = st.logFile
                  /\ wholeFrames' =
                        Cardinality({k \in 1..Len(script) :
                                        /\ ends[k - 1] >= fed
                                        /\ ends[k] <= fed + n})
    /\ UNCHANGED <<config, argv, script, stdinVars, logBroken,
                   stderr,
                   lifeVars, signalVars>>

\* child.stdout.on("data", (chunk) => parser.feed(chunk, ...)): the next n
\* bytes of the child's output arrive as one chunk.
OnStdoutData ==
    /\ proxy = "running"
    /\ child \in {"running", "exited"}
    /\ LET stream == Stream
           ends == [k \in 0..Len(script) |-> FrameEnd(k)]
       IN  \E n \in 1..(Len(stream) - fed) :
              LET chunk == SubSeq(stream, fed + 1, fed + n)
                  st == feed(ParserState, chunk)
              IN  /\ fed' = fed + n
                  /\ buffer' = st.buffer
                  /\ contentLength' = st.contentLength
                  /\ stdout' = st.stdout
                  /\ calls' = st.calls
                  /\ logFile' = st.logFile
                  /\ wholeFrames' =
                        Cardinality({k \in 1..Len(script) :
                                        /\ ends[k - 1] >= fed
                                        /\ ends[k] <= fed + n})
    /\ UNCHANGED <<config, argv, script, stdinVars, logBroken,
                   stderr, lifeVars, signalVars>>

\* Variant: the handler also ends the proxy.
OnSignalExits ==
    /\ proxy = "running"
    /\ child \in {"running", "exited"}
    /\ Len(received) < MaxSignals
    /\ \E sig \in Signals :
          /\ received' = Append(received, sig)
          /\ childSignals' = Append(childSignals, sig)
    /\ proxy' = "exited"
    /\ exitStatus' = 0
    /\ UNCHANGED <<config, argv, script, stdinVars, logBroken,
                   parserVars, stderr, logFile, child,
                   childCode, spawns>>

\* process.on("SIGTERM" / "SIGINT", () => child.kill(sig)); childSignals
\* records the calls of child.kill.
OnSignal ==
    /\ proxy = "running"
    /\ child \in {"running", "exited"}
    /\ Len(received) < MaxSignals
    /\ \E sig \in Signals :
          /\ received' = Append(received, sig)
          /\ childSignals' = Append(childSignals, sig)
    /\ UNCHANGED <<config, argv, script, stdinVars, logBroken,
                   parserVars, stderr, logFile, lifeVars>>

Next ==
    \/ StartProxy
    \/ OnChildError
    \/ ChildTerminates
    \/ OnChildExit
    \/ OnStdoutData
    \/ OnSignal

Spec == Init /\ [][Next]_vars

\* The server-to-client pipeline on its own: the proxy has started its
\* child, and the child's output arrives in chunks.
\* Every setting of the filter, with the debug log switched on only under
\* the default threshold: log writes nothing but the log file.
StreamConfigs == {c \in Configs : c.debug => c.minSeverity = 1}

InitStream ==
    /\ config \in StreamConfigs
    /\ argv = <<"server">>
    /\ script \in Scripts
    /\ fed = 0
    /\ buffer = <<>>
    /\ contentLength = Null
    /\ stdout = <<>>
    /\ stderr = <<>>
    /\ logFile = log(log(<<>>, "Starting proxy"), "Config")
    /\ calls = <<>>
    /\ wholeFrames = 0
    /\ proxy = "running"
    /\ exitStatus = Null
    /\ child = "running"
    /\ childCode = Null
    /\ spawns = 1
    /\ received = <<>>
    /\ childSignals = <<>>
    /\ clientInput = <<>>
    /\ sentIn = 0
    /\ stdinEnded = FALSE
    /\ childStdin = <<>>
    /\ childStdinEnded = FALSE
    /\ logBroken = FALSE

NextStream == OnStdoutData

SpecStream == InitStream /\ [][NextStream]_vars

\* ------------------------------------------------- the client's input
\* Variant: bytes that arrive once the child has ended are not written.
OnStdinDataWhileAlive ==
    /\ proxy = "running"
    /\ child \in {"running", "exited"}
    /\ ~stdinEnded
    /\ \E n \in 1..(Len(clientInput) - sentIn) :
          /\ sentIn' = sentIn + n
          /\ childStdin' =
                IF child = "running"
                THEN childStdin \o SubSeq(clientInput, sentIn + 1, sentIn + n)
                ELSE childStdin
    /\ UNCHANGED <<config, argv, script, parserVars, stderr, logFile, lifeVars,
                   signalVars, clientInput, stdinEnded, childStdinEnded,
                   logBroken>>

\* Variant: the client's bytes also land in the parser's buffer.
OnStdinDataShared ==
    /\ proxy = "running"
    /\ child \in {"running", "exited"}
    /\ ~stdinEnded
    /\ \E n \in 1..(Len(clientInput) - sentIn) :
          LET chunk == SubSeq(clientInput, sentIn + 1, sentIn + n)
          IN  /\ sentIn' = sentIn + n
              /\ childStdin' = childStdin \o chunk
              /\ buffer' = buffer \o chunk
    /\ UNCHANGED <<config, argv, script, fed, contentLength, stdout, calls,
                   wholeFrames, stderr, logFile, lifeVars, signalVars,
                   clientInput, stdinEnded, childStdinEnded, logBroken>>

\* process.stdin.on("data", (chunk) => child.stdin.write(chunk)): the next n
\* bytes of the client's input arrive as one chunk; childStdin records what
\* is passed to child.stdin.write.
OnStdinData ==
    /\ proxy = "running"
    /\ child \in {"running", "exited"}
    /\ ~stdinEnded
    /\ \E n \in 1..(Len(clientInput) - sentIn) :
          /\ sentIn' = sentIn + n
          /\ childStdin' =
                childStdin \o SubSeq(clientInput, sentIn + 1, sentIn + n)
    /\ UNCHANGED <<config, argv, script, parserVars, stderr, logFile, lifeVars,
                   signalVars, clientInput, stdinEnded, childStdinEnded,
                   logBroken>>

\* process.stdin.on("end", () => child.stdin.end()).  The client may close
\* its end at any point of its input.
OnStdinEnd ==
    /\ proxy = "running"
    /\ child \in {"running", "exited"}
    /\ ~stdinEnded
    /\ stdinEnded' = TRUE
    /\ childStdinEnded' = TRUE
    /\ UNCHANGED <<config, argv, script, parserVars, stderr, logFile, lifeVars,
                   signalVars, clientInput, sentIn, childStdin, logBroken>>

\* A suppressible frame, a header block without a length field and one more
\* frame from the child, while the client sends a few stray bytes.
ServerHeavyRun ==
    [script |-> <<PlainFrame(PdText("u", <<>>)),
                  [bytes |-> <<"X-Junk:">> \o Separator, text |-> <<>>,
                   valid |-> FALSE],
                  PlainFrame(FooText)>>,
     clientInput |-> <<"{", "M">>]

\* A silent child, while the client sends a publishDiagnostics frame
\* followed by the start of a header block without a length field.
ClientHeavyRun ==
    [script |-> <<>>,
     clientInput |-> PlainFrame(<<"{", "J", "M", "}">>).bytes \o <<"X-Junk:">>]

DuplexRuns == {ServerHeavyRun, ClientHeavyRun}

\* The filter switched either way, with the default threshold and no
\* debug log.
DuplexConfigs == [dropAll : BOOLEAN, minSeverity : {1}, debug : {FALSE}]

\* The whole proxy with both directions.
InitDuplex ==
    /\ config \in DuplexConfigs
    /\ argv \in {<<>>, <<"server">>}
    /\ \E run \in DuplexRuns :
          /\ script = run.script
          /\ clientInput = run.clientInput
    /\ fed = 0
    /\ buffer = <<>>
    /\ contentLength = Null
    /\ stdout = <<>>
    /\ stderr = <<>>
    /\ logFile = <<>>
    /\ calls = <<>>
    /\ wholeFrames = 0
    /\ proxy = "init"
    /\ exitStatus = Null
    /\ child = "none"
    /\ childCode = Null
    /\ spawns = 0
    /\ received = <<>>
    /\ childSignals = <<>>
    /\ sentIn = 0
    /\ stdinEnded = FALSE
    /\ childStdin = <<>>
    /\ childStdinEnded = FALSE
    /\ logBroken = FALSE

NextDuplex ==
    \/ StartProxy
    \/ OnChildError
    \/ ChildTerminates
    \/ OnChildExit
    \/ OnStdoutData
    \/ OnSignal
    \/ OnStdinData
    \/ OnStdinEnd

SpecDuplex == InitDuplex /\ [][NextDuplex]_vars

\* ------------------------------------------- a log file that cannot be written
\* log() with the debug flag set calls appendFileSync, which throws when the
\* file cannot be written.
LogThrows == config.debug /\ logBroken

\* The callback and its try block when appendFileSync may throw.  The calls
\* of log are those of OnMessage.  One that throws inside filterDiagnostics
\* lands in drain's catch block, whose own call of log throws again: the
\* exception leaves feed, and nothing is written for the message.
OnMessageLogged(st, parsed) ==
    LET f == filterDiagnostics(parsed.value)
        logs == ~parsed.ok \/ f.ret = "throw" \/ f.lines # <<>>
    IN  IF LogThrows /\ logs THEN [st EXCEPT !.crashed = TRUE]
        ELSE OnMessage(st, parsed)

\* MessageParser.drain when appendFileSync may throw: the log call for a
\* malformed header is outside any try block.
RECURSIVE drainLogged(_)
drainLogged(st) ==
    LET headerEnd == IndexOfSeparator(st.buffer, 1)
        headerBlock == AsciiDecode(SubSeq(st.buffer, 1, headerEnd))
        match == HeaderMatch(headerBlock, 1)
        rest == SubSeq(st.buffer, headerEnd + 5, Len(st.buffer))
    IN  IF st.crashed THEN st
        ELSE IF st.contentLength = Null /\ headerEnd = -1 THEN st
        ELSE IF st.contentLength = Null /\ match = <<>>
        THEN IF LogThrows THEN [st EXCEPT !.crashed = TRUE]
             ELSE drainLogged([st EXCEPT
                                 !.logFile = log(@, "Malformed header, skipping"),
                                 !.buffer = rest])
        ELSE LET len == IF st.contentLength = Null THEN ParseInt(match)
                        ELSE st.contentLength
                 buf == IF st.contentLength = Null THEN rest ELSE st.buffer
             IN  IF Len(buf) < len
                 THEN [st EXCEPT !.contentLength = len, !.buffer = buf]
                 ELSE LET body == Utf8Decode(SubSeq(buf, 1, len))
                          after == [st EXCEPT
                                      !.buffer = SubSeq(buf, len + 1, Len(buf)),
                                      !.contentLength = Null]
                      IN  drainLogged(OnMessageLogged(after, JsonParse(body)))

feedLogged(st, chunk) == drainLogged([st EXCEPT !.buffer = @ \o chunk])

\* The log file stops being writable (removed directory, full disk).
LogFileBreaks ==
    /\ proxy = "running"
    /\ ~logBroken
    /\ logBroken' = TRUE
    /\ UNCHANGED <<config, argv, script, parserVars, stderr, logFile, lifeVars,
                   signalVars, stdinVars>>

\* child.stdout.on("data", ...) when appendFileSync may throw: an exception
\* that leaves feed is uncaught, and Node ends the process with status 1.
OnStdoutDataLogged ==
    /\ proxy = "running"
    /\ child \in {"running", "exited"}
    /\ LET stream == Stream
           ends == [k \in 0..Len(script) |-> FrameEnd(k)]
       IN  \E n \in 1..(Len(stream) - fed) :
              LET chunk == SubSeq(stream, fed + 1, fed + n)
                  st == feedLogged(
                            [buffer |-> buffer, contentLength |-> contentLength,
                             stdout |-> stdout, calls |-> calls,
                             logFile |-> logFile, crashed |-> FALSE], chunk)
              IN  /\ fed' = fed + n
                  /\ buffer' = st.buffer
                  /\ contentLength' = st.contentLength
                  /\ stdout' = st.stdout
                  /\ calls' = st.calls
                  /\ logFile' = st.logFile
                  /\ wholeFrames' =
                        Cardinality({k \in 1..Len(script) :
                                        /\ ends[k - 1] >= fed
                                        /\ ends[k] <= fed + n})
                  /\ IF st.crashed
                     THEN /\ proxy' = "exited"
                          /\ exitStatus' = 1
                          /\ stderr' = Append(stderr, "Uncaught exception")
                     ELSE UNCHANGED <<proxy, exitStatus, stderr>>
    /\ UNCHANGED <<config, argv, script, stdinVars, logBroken,
                   child,
                   childCode, spawns, signalVars>>

\* child.on("exit", ...) when appendFileSync may throw: log is called before
\* process.exit.
OnChildExitLogged ==
    /\ proxy = "running"
    /\ child = "exited"
    /\ proxy' = "exited"
    /\ IF LogThrows
       THEN /\ exitStatus' = 1
            /\ stderr' = Append(stderr, "Uncaught exception")
            /\ UNCHANGED logFile
       ELSE /\ exitStatus' = IF childCode = Null THEN 0 ELSE childCode
            /\ logFile' = log(logFile, "LSP server exited")
            /\ UNCHANGED stderr
    /\ UNCHANGED <<config, argv, script, stdinVars, logBroken,
                   parserVars,
                   child, childCode, spawns, signalVars>>

\* The proxy has started its child; the log file may break at any time.
InitLog ==
    /\ config \in Configs
    /\ argv = <<"server">>
    /\ script \in LifeScripts
    /\ fed = 0
    /\ buffer = <<>>
    /\ contentLength = Null
    /\ stdout = <<>>
    /\ stderr = <<>>
    /\ logFile = log(log(<<>>, "Starting proxy"), "Config")
    /\ calls = <<>>
    /\ wholeFrames = 0
    /\ proxy = "running"
    /\ exitStatus = Null
    /\ child = "running"
    /\ childCode = Null
    /\ spawns = 1
    /\ received = <<>>
    /\ childSignals = <<>>
    /\ clientInput = <<>>
    /\ sentIn = 0
    /\ stdinEnded = FALSE
    /\ childStdin = <<>>
    /\ childStdinEnded = FALSE
    /\ logBroken = FALSE

NextLog ==
    \/ LogFileBreaks
    \/ OnStdoutDataLogged
    \/ ChildTerminates
    \/ OnChildExitLogged

SpecLog == InitLog /\ [][NextLog]_vars

TypeOK ==
    /\ proxy \in {"init", "running", "exited"}
    /\ child \in {"none", "error", "running", "exited"}
    /\ fed \in 0..Len(Stream)
    /\ exitStatus \in {Null, 0, 1, 3}

\* ------------------------------------------------------- claim vocabulary
ValidScript == \A k \in 1..Len(script) : script[k].valid

Messages(cs) == [k \in 1..Len(cs) |-> cs[k].msg]

\* The message a valid frame of the script carries.
ExpectedMessage(item) == JsonParse(item.text).value

IsPd(m) == m.method = <<PublishDiagnostics>>

\* Number of frames of the script whose last byte has been delivered.
FramesDelivered == Cardinality({k \in 1..Len(script) : FrameEnd(k) <= fed})

\* frame is "Content-Length: N", the separator and exactly N bytes of body.
WellFramed(frame) ==
    \E j \in 1..(Len(frame) + 1) :
        LET body == SubSeq(frame, j, Len(frame))
        IN  frame = CONTENT_LENGTH_HEADER \o NumberToString(Len(body))
                    \o Separator \o body

FrameBody(frame) ==
    LET j == CHOOSE j \in 1..(Len(frame) + 1) :
                 LET body == SubSeq(frame, j, Len(frame))
                 IN  frame = CONTENT_LENGTH_HEADER \o NumberToString(Len(body))
                             \o Separator \o body
    IN  SubSeq(frame, j, Len(frame))

Decoded(frame) == JsonParse(Utf8Decode(FrameBody(frame)))

Carries(frame, m) ==
    WellFramed(frame) /\ Decoded(frame) = [ok |-> TRUE, value |-> m]

FramesWritten == Flatten([k \in 1..Len(calls) |-> calls[k].wrote])

\* out holds exactly the entries of in whose severity (1 when missing) is at
\* most t, in the order they have in in.
ExactlyKept(in, out, t) ==
    LET sev(d) == IF d.severity = Absent THEN 1 ELSE d.severity[1]
        kept == {k \in 1..Len(in) : sev(in[k]) <= t}
        nth(j) == CHOOSE k \in kept : Cardinality({x \in kept : x <= k}) = j
    IN  /\ Len(out) = Cardinality(kept)
        /\ \A j \in 1..Len(out) : out[j] = in[nth(j)]

HasDiagnostics(m) ==
    /\ m.kind = "object"
    /\ m.params # Absent
    /\ m.params[1].diagnostics # Absent

DiagnosticsOf(m) == m.params[1].diagnostics[1]

\* ------------------------------------------------------------------ claims

\* C1. Chunk-boundary independence: once a stream of valid frames has been
\* delivered, in whatever chunks, the messages passed to the callback are
\* the messages a single feed of the whole stream passes, in the same order.
ChunkBoundaryIndependence ==
    (ValidScript /\ fed = Len(Stream))
        => Messages(calls) = Messages(feed(FreshState, Stream).calls)

ChunkedDeliveryDone ==
    /\ ValidScript
    /\ Len(script) >= 2
    /\ fed = Len(Stream)
    /\ wholeFrames = 0
    /\ Len(calls) = Len(script)

\* C2. Multi-frame draining: after a feed whose chunk held two or more whole
\* valid frames, every frame delivered so far has been passed to the
\* callback, in arrival order; none waits for a later feed.
MultiFrameDraining ==
    (ValidScript /\ wholeFrames >= 2)
        => /\ Len(calls) = FramesDelivered
           /\ \A k \in 1..Len(calls) :
                 calls[k].msg = ExpectedMessage(script[k])

TwoFramesInOneChunk ==
    /\ ValidScript
    /\ wholeFrames = 2
    /\ Len(script) = 3
    /\ Len(calls) = 3

\* C3. Identity on non-target methods: a message object whose method is not
\* textDocument/publishDiagnostics (or that has no method) is returned
\* unchanged by filterDiagnostics, under every configuration, and one frame
\* carrying that message is written to the output.
IdentityOnNonTarget ==
    /\ stdout = FramesWritten
    /\ \A k \in 1..Len(calls) :
          (calls[k].msg.kind = "object" /\ ~IsPd(calls[k].msg))
              => /\ calls[k].ret = "message"
                 /\ calls[k].out = calls[k].msg
                 /\ Len(calls[k].wrote) = 1
                 /\ Carries(calls[k].wrote[1], calls[k].msg)

ResponseForwardedUnderDropAll ==
    /\ config.dropAll
    /\ \E k \in 1..Len(calls) :
          /\ calls[k].msg.kind = "object"
          /\ calls[k].msg.method = Absent
          /\ calls[k].msg.id # Absent
          /\ stdout # <<>>

\* C4. Drop-all correctness: with drop-all set, filterDiagnostics returns
\* null for every publishDiagnostics message, whatever its payload and the
\* threshold, and no frame on the output carries a publishDiagnostics
\* message.
DropAllCorrectness ==
    config.dropAll
        => /\ \A k \in 1..Len(calls) :
                 IsPd(calls[k].msg)
                     => calls[k].ret = "null" /\ calls[k].wrote = <<>>
           /\ \A j \in 1..Len(stdout) :
                 ~(WellFramed(stdout[j]) /\ Decoded(stdout[j]).ok
                   /\ IsPd(Decoded(stdout[j]).value))

DropAllWithoutDiagnostics ==
    /\ config.dropAll
    /\ config.minSeverity = 4
    /\ \E k \in 1..Len(calls) :
          /\ IsPd(calls[k].msg)
          /\ calls[k].msg.params # Absent
          /\ calls[k].msg.params[1].diagnostics = Absent
          /\ calls[k].ret = "null"

\* C5. Severity threshold correctness: without drop-all and with threshold
\* T, the frame written for a publishDiagnostics message carries exactly the
\* input diagnostics whose severity (1 when missing) is at most T, in their
\* original order; T = 1 keeps only severity 1 and severity-less entries,
\* T = 4 keeps every entry.
SeverityThresholdCorrectness ==
    ~config.dropAll
        => \A k \in 1..Len(calls) :
              (IsPd(calls[k].msg) /\ HasDiagnostics(calls[k].msg))
                  => /\ Len(calls[k].wrote) = 1
                     /\ WellFramed(calls[k].wrote[1])
                     /\ Decoded(calls[k].wrote[1]).ok
                     /\ HasDiagnostics(Decoded(calls[k].wrote[1]).value)
                     /\ LET in == DiagnosticsOf(calls[k].msg)
                            out == DiagnosticsOf(Decoded(calls[k].wrote[1]).value)
                        IN  /\ ExactlyKept(in, out, config.minSeverity)
                            /\ config.minSeverity = 1
                                  => \A j \in 1..Len(out) :
                                        out[j].severity \in {Absent, <<1>>}
                            /\ config.minSeverity = 4 => out = in

ErrorKeptHintDropped ==
    /\ ~config.dropAll
    /\ config.minSeverity = 1
    /\ \E k \in 1..Len(calls) :
          /\ IsPd(calls[k].msg)
          /\ HasDiagnostics(calls[k].msg)
          /\ DiagnosticsOf(calls[k].msg) = <<DiagnosticOf("1"), DiagnosticOf("4")>>
          /\ Len(calls[k].wrote) = 1
          /\ DiagnosticsOf(Decoded(calls[k].wrote[1]).value) = <<DiagnosticOf("1")>>

\* C6. Empty-result forwarding: without drop-all, every publishDiagnostics
\* message passed to the callback has exactly one frame written for it.
EmptyResultForwarding ==
    ~config.dropAll
        => \A k \in 1..Len(calls) :
              IsPd(calls[k].msg) => Len(calls[k].wrote) = 1

\* C7. Suppression is local to one message: with drop-all set, nothing is
\* written for a publishDiagnostics frame, and once the stream has been
\* delivered the output is the output of the same stream without its
\* publishDiagnostics frames.
SuppressionIsLocal ==
    (config.dropAll /\ ValidScript)
        => /\ \A k \in 1..Len(calls) :
                 IsPd(calls[k].msg) => calls[k].wrote = <<>>
           /\ fed = Len(Stream)
                 => stdout =
                       feed(FreshState,
                            BytesOf(SelectSeq(script,
                                LAMBDA it : ~IsPd(ExpectedMessage(it))))).stdout

ForwardedAfterSuppressed ==
    /\ config.dropAll
    /\ ValidScript
    /\ fed = Len(Stream)
    /\ Len(script) >= 2
    /\ IsPd(ExpectedMessage(script[1]))
    /\ ~IsPd(ExpectedMessage(script[Len(script)]))
    /\ Len(stdout) >= 1
    /\ Len(stdout) < Len(calls)

\* C8. Exit mirroring: once the child has been started, the proxy ends only
\* on the child's exit event, with the child's exit code, or with 0 when the
\* child was killed by a signal and has no code.
ExitMirroring ==
    (proxy = "exited" /\ child \in {"running", "exited"})
        => /\ child = "exited"
           /\ childCode = Null => exitStatus = 0
           /\ childCode # Null => exitStatus = childCode

ExitedWithChildCode ==
    /\ proxy = "exited"
    /\ child = "exited"
    /\ childCode = 3
    /\ exitStatus = 3

\* C9. Spawn failure is fatal: from a failed spawn the only step is the one
\* that writes the failure report to stderr and ends the proxy with status
\* 1, with one spawn made and nothing written to stdout; without a command
\* the proxy ends with status 1 and never spawns.
SpawnFailureIsFatal ==
    [][/\ (proxy = "running" /\ child = "error")
              => /\ proxy' = "exited"
                 /\ exitStatus' = 1
                 /\ stderr' = <<"Failed to start LSP server">>
                 /\ spawns = 1 /\ spawns' = 1
                 /\ stdout = <<>> /\ stdout' = <<>>
       /\ (proxy = "init" /\ argv = <<>>)
              => /\ proxy' = "exited"
                 /\ exitStatus' = 1
                 /\ spawns' = 0
                 /\ child' = "none"]_vars

ExitedOnSpawnFailure ==
    /\ proxy = "exited"
    /\ child = "error"
    /\ exitStatus = 1
    /\ spawns = 1
    /\ stderr = <<"Failed to start LSP server">>

\* C10. Signal propagation: the step that delivers SIGTERM or SIGINT to the
\* proxy passes that signal to child.kill and leaves the proxy running; the
\* proxy ends only in a step that handles the child's exit event or a spawn
\* failure, never in a signal step while the child is running.
SignalPropagation ==
    [][/\ received' # received
              => /\ childSignals' =
                       Append(childSignals, received'[Len(received')])
                 /\ proxy' = "running"
                 /\ exitStatus' = Null
       /\ (proxy = "running" /\ proxy' = "exited")
              => /\ received' = received
                 /\ child \in {"exited", "error"}]_vars

SignalledAndStillRunning ==
    /\ received # <<>>
    /\ childSignals = received
    /\ proxy = "running"
    /\ child = "running"


\* C11. Client-to-server pass-through: after every step the bytes written
\* to the child's stdin are exactly the bytes received so far on the proxy's
\* stdin, in order and unmodified; the end of the client's input closes the
\* child's stdin and leaves the proxy running, and the child's output is
\* still taken and forwarded afterwards.
ClientPassThrough ==
    /\ [](stdinEnded =>
            stdout = feed(FreshState, SubSeq(Stream, 1, fed)).stdout)
    /\ [][/\ childStdin' = SubSeq(clientInput, 1, sentIn')
          /\ (stdinEnded' /\ ~stdinEnded) =>
                /\ childStdinEnded'
                /\ proxy' = proxy
                /\ exitStatus' = exitStatus
                /\ UNCHANGED <<child, parserVars>>]_vars

\* The client's whole input, a publishDiagnostics frame and a partial header
\* block, has been passed on, and the input has ended with the proxy alive.
ClientInputPassedAndEnded ==
    /\ clientInput = ClientHeavyRun.clientInput
    /\ childStdin = clientInput
    /\ stdinEnded
    /\ childStdinEnded
    /\ proxy = "running"


\* C12. No frame lost at shutdown: every complete, well-formed frame the
\* child writes that is not a publishDiagnostics notification is written to
\* the proxy's output before the proxy ends with the child's status, in
\* every interleaving of child output, child exit, client input and signals.
NoFrameLostAtShutdown ==
    (proxy = "exited" /\ child = "exited") =>
        \A k \in 1..Len(script) :
            (script[k].valid /\ ~IsPd(ExpectedMessage(script[k]))) =>
                \E j \in 1..Len(stdout) :
                    Carries(stdout[j], ExpectedMessage(script[k]))


\* A frame of the child's output that the proxy passes on under config.
Forwardable(item) ==
    /\ item.valid
    /\ IsPd(ExpectedMessage(item)) =>
          ~config.dropAll /\ HasDiagnostics(ExpectedMessage(item))

\* C13. Per-direction ordering: the frames written to the proxy's output
\* are, one for one and in arrival order, the delivered frames of the child
\* that are neither suppressed nor malformed; the bytes written to the
\* child's stdin are the client's bytes in arrival order; a step of one
\* direction changes nothing of what the other direction forwards.
PerDirectionOrdering ==
    /\ [](LET kept == SelectSeq(SubSeq(script, 1, FramesDelivered),
                                Forwardable)
          IN  /\ Len(stdout) = Len(kept)
              /\ \A j \in 1..Len(kept) :
                    LET m == ExpectedMessage(kept[j])
                        d == Decoded(stdout[j])
                    IN  /\ WellFramed(stdout[j])
                        /\ d.ok
                        /\ d.value.method = m.method
                        /\ d.value.id = m.id
              /\ childStdin = SubSeq(clientInput, 1, sentIn))
    /\ [][/\ (sentIn' # sentIn \/ stdinEnded' # stdinEnded) =>
                UNCHANGED parserVars
          /\ fed' # fed => UNCHANGED stdinVars]_vars

\* Both directions have been active: the child's three frames are delivered,
\* two of them written in their order, and the client's bytes passed on.
BothDirectionsForwarded ==
    /\ script = ServerHeavyRun.script
    /\ fed = Len(Stream)
    /\ Len(stdout) = 2
    /\ Decoded(stdout[1]).value.method = <<PublishDiagnostics>>
    /\ childStdin = ServerHeavyRun.clientInput


\* C14. Encode length exactness: every frame encodeMessage produces is the
\* header "Content-Length: N", the separator and a body of exactly N bytes
\* that decodes to the serialized message; N is the number of encoded bytes,
\* so it exceeds the number of characters exactly when the body holds a
\* multi-byte character.
EncodeLengthExactness ==
    \A k \in 1..Len(calls) :
        calls[k].wrote # <<>> =>
            LET frame == calls[k].wrote[1]
                text == JsonStringify(calls[k].out)
                headerEnd == IndexOfSeparator(frame, 1)
                header == SubSeq(frame, 1, headerEnd)
                digits == SubSeq(header, 3, Len(header))
                body == SubSeq(frame, headerEnd + 5, Len(frame))
                multi == \E i \in 1..Len(text) : text[i] = "e"
            IN  /\ headerEnd >= 3
                /\ SubSeq(header, 1, 2) = CONTENT_LENGTH_HEADER
                /\ \A i \in 1..Len(digits) : IsDigit(digits[i])
                /\ Len(body) = ParseInt(digits)
                /\ Utf8Decode(body) = text
                /\ IF multi THEN Len(body) > Len(text)
                   ELSE Len(body) = Len(text)

\* A frame has been written whose body holds a two-byte character: twelve
\* bytes declared for eleven characters.
MultiByteFrameWritten ==
    \E k \in 1..Len(calls) :
        /\ calls[k].wrote # <<>>
        /\ Len(JsonStringify(calls[k].out)) = 11
        /\ SubSeq(calls[k].wrote[1], 3, 4) = <<"1", "2">>


NoLengthField(item) ==
    \A i \in 1..Len(item.bytes) : ~IsLengthName(item.bytes[i])

\* The item holds a length field in front of a body that is not JSON.
BadBody(item) == ~item.valid /\ ~NoLengthField(item)

\* The parser and the output are what the bytes delivered so far give with
\* the k-th item of the script taken out of them.
AsIfAbsent(k) ==
    LET ref == feed(FreshState,
                    SubSeq(Stream, 1, FrameEnd(k - 1))
                    \o SubSeq(Stream, FrameEnd(k) + 1, fed))
    IN  /\ buffer = ref.buffer
        /\ contentLength = ref.contentLength
        /\ Messages(calls) = Messages(ref.calls)
        /\ stdout = ref.stdout

\* C16. Malformed-header resynchronisation: a header block without a length
\* field is discarded through its separator, no message is emitted for it,
\* the parser is left awaiting a header, and a well-formed frame behind the
\* block is emitted, in the same feed call when it arrived in the same chunk.
MalformedHeaderResync ==
    \A k \in 1..Len(script) :
        (NoLengthField(script[k]) /\ fed >= FrameEnd(k)) =>
            /\ AsIfAbsent(k)
            /\ fed = FrameEnd(k) => (buffer = <<>> /\ contentLength = Null)
            /\ (wholeFrames >= 2 /\ Len(script) > k /\ fed = FrameEnd(k + 1)) =>
                  /\ calls # <<>>
                  /\ calls[Len(calls)].msg = ExpectedMessage(script[k + 1])

\* One chunk held the block without a length field and the frame behind it,
\* and the frame's message was emitted.
FrameBehindMalformedHeader ==
    /\ Len(script) = 2
    /\ NoLengthField(script[1])
    /\ wholeFrames = 2
    /\ Messages(calls) = <<ExpectedMessage(script[2])>>

\* C17. Malformed-body isolation: a frame whose body of the declared length
\* is not JSON is dropped alone: exactly its bytes are consumed, the parser
\* is left awaiting a header, the handler returns normally, and the frames
\* before and after it are emitted as if it were absent.
MalformedBodyIsolation ==
    \A k \in 1..Len(script) :
        (BadBody(script[k]) /\ fed >= FrameEnd(k)) =>
            /\ AsIfAbsent(k)
            /\ fed = FrameEnd(k) => (buffer = <<>> /\ contentLength = Null)
            /\ Len(calls) =
                  Cardinality({i \in 1..FramesDelivered : script[i].valid})
            /\ proxy = "running"

\* A frame, a frame with a body that is not JSON and one more frame have
\* been delivered: the two good ones were emitted.
GoodFramesAroundBadBody ==
    /\ Len(script) = 3
    /\ BadBody(script[2])
    /\ fed = Len(Stream)
    /\ Messages(calls) =
          <<ExpectedMessage(script[1]), ExpectedMessage(script[3])>>
    /\ Len(stdout) = 2


\* The parser holds a declared length and fewer bytes than it.
Stalled == contentLength # Null /\ Len(buffer) < contentLength

\* C18. A stall on an incomplete body affects one direction only: while the
\* parser waits for the rest of a body, a step that brings no child output
\* (client input, end of input, a signal, the child's end) emits nothing,
\* writes nothing and leaves the parser waiting; client bytes arriving then
\* are still written to the child; child output that leaves the body short
\* keeps the stall, and child output that completes it emits the frame.
StallIsOneDirectional ==
    [][Stalled =>
          /\ fed' = fed => UNCHANGED <<buffer, contentLength, calls, stdout>>
          /\ sentIn' > sentIn =>
                childStdin' =
                   childStdin \o SubSeq(clientInput, sentIn + 1, sentIn')
          /\ fed' > fed =>
                IF Len(buffer) + (fed' - fed) < contentLength
                THEN /\ Stalled'
                     /\ contentLength' = contentLength
                     /\ UNCHANGED <<calls, stdout>>
                ELSE /\ Len(calls') > Len(calls)
                     /\ calls'[Len(calls) + 1].msg =
                           ExpectedMessage(script[FramesDelivered + 1])]_vars

\* The parser waits for the rest of a body while the client's bytes have
\* been passed on, the client's input has ended and a signal has been taken.
StalledWhileClientActive ==
    /\ Stalled
    /\ proxy = "running"
    /\ sentIn = Len(clientInput)
    /\ childStdin = ServerHeavyRun.clientInput
    /\ stdinEnded
    /\ received # <<>>
    /\ stdout = <<>>


\* C19. Filter frame condition: on the severity path the message returned
\* for a publishDiagnostics message, and the frame written for it, have the
\* input's jsonrpc, id, method and result, and params with the input's uri
\* and version; only the diagnostics sequence may differ.
FilterFrameCondition ==
    ~config.dropAll =>
        \A k \in 1..Len(calls) :
            (IsPd(calls[k].msg) /\ calls[k].ret = "message") =>
                LET in == calls[k].msg
                    out == calls[k].out
                IN  /\ out.kind = in.kind
                    /\ out.jsonrpc = in.jsonrpc
                    /\ out.id = in.id
                    /\ out.method = in.method
                    /\ out.result = in.result
                    /\ out.params # Absent
                    /\ out.params[1].uri = in.params[1].uri
                    /\ out.params[1].version = in.params[1].version
                    /\ out = [in EXCEPT !.params =
                                <<[in.params[1] EXCEPT
                                     !.diagnostics =
                                        out.params[1].diagnostics]>>]
                    /\ Len(calls[k].wrote) = 1
                    /\ Decoded(calls[k].wrote[1]) = [ok |-> TRUE, value |-> out]

\* A publishDiagnostics message with an id and a version went through the
\* severity path and lost a diagnostic.
FilteredWithIdAndVersion ==
    /\ ~config.dropAll
    /\ \E k \in 1..Len(calls) :
          /\ IsPd(calls[k].msg)
          /\ calls[k].ret = "message"
          /\ calls[k].msg.id # Absent
          /\ calls[k].msg.params[1].version # Absent
          /\ Len(DiagnosticsOf(calls[k].out)) < Len(DiagnosticsOf(calls[k].msg))


\* Position in item.bytes of the length field's name: the one that starts a
\* header line.
LengthFieldAt(item) ==
    CHOOSE p \in 1..Len(item.bytes) :
        /\ IsLengthName(item.bytes[p])
        /\ p = 1 \/ item.bytes[p - 1] = LF

\* C20. Header-block decoding: for a header block that holds a
\* Content-Length field, in any letter case, the length the parser adopts is
\* the value of that field, whatever other fields stand before or after it.
HeaderBlockDecoding ==
    \A k \in 1..Len(script) :
        LET item == script[k]
            value == ParseInt(DigitRun(item.bytes,
                                       SkipSpace(item.bytes,
                                                 LengthFieldAt(item) + 1)))
            headerEnd == FrameEnd(k - 1) + IndexOfSeparator(item.bytes, 1) + 4
        IN  (item.valid /\ FramesDelivered = k - 1 /\ fed >= headerEnd
               /\ (\A i \in 1..(k - 1) : script[i].valid))
                => /\ contentLength = value
                   /\ buffer = SubSeq(Stream, headerEnd + 1, fed)


\* C21. Parser quiescence: whenever feed has returned, either no length is
\* pending and the buffer holds no separator, or a length n is pending and
\* the buffer holds fewer than n bytes; no complete frame stays undrained.
ParserQuiescence ==
    \/ contentLength = Null /\ IndexOfSeparator(buffer, 1) = -1
    \/ contentLength # Null /\ Len(buffer) < contentLength

\* feed has returned after draining a frame, with the start of the next
\* header block buffered.
QuiescentWithPartialHeader ==
    /\ contentLength = Null
    /\ buffer # <<>>
    /\ calls # <<>>
    /\ fed < Len(Stream)


\* The messages the callback has been given and the messages it has
\* returned, in the order of the calls.
MessagesSeen ==
    [k \in 1..(2 * Len(calls)) |->
        IF k <= Len(calls) THEN calls[k].msg ELSE calls[k - Len(calls)].out]

\* C22. Encode/parse round trip: feeding encodeMessage(m) to a parser that
\* awaits a header with an empty buffer emits exactly m and leaves the
\* parser as it was; feeding the concatenation of the frames of m1 ... mk
\* emits m1 ... mk.
EncodeParseRoundTrip ==
    /\ \A k \in 1..Len(MessagesSeen) :
          LET m == MessagesSeen[k]
              ref == feed(FreshState, encodeMessage(m))
          IN  /\ Messages(ref.calls) = <<m>>
              /\ ref.buffer = <<>>
              /\ ref.contentLength = Null
    /\ LET frames == [k \in 1..Len(MessagesSeen) |->
                         encodeMessage(MessagesSeen[k])]
           ref == feed(FreshState, Flatten(frames))
       IN  /\ Messages(ref.calls) = MessagesSeen
           /\ ref.buffer = <<>>
           /\ ref.contentLength = Null

\* Three messages have gone through the filter, one of them changed by it:
\* six messages, five of them distinct, are encoded and parsed back.
SixMessagesRoundTripped ==
    /\ Len(calls) = 3
    /\ \E k \in 1..3 : calls[k].ret = "message" /\ calls[k].out # calls[k].msg


\* The callback fails on the message of the item: the body is null, or a
\* publishDiagnostics message reaches the severity path without params or
\* without a diagnostics sequence.
CallbackFailsOn(item) ==
    /\ item.valid
    /\ \/ ExpectedMessage(item).kind = "null"
       \/ /\ IsPd(ExpectedMessage(item))
          /\ ~config.dropAll
          /\ ~HasDiagnostics(ExpectedMessage(item))

\* C23. Consumer failures are contained: when the callback fails on a
\* decoded message the handler returns normally, nothing is written for the
\* message, the frame is consumed and no length is pending, and the frames
\* behind it, also those of the same chunk, are processed as without it.
ConsumerFailureContained ==
    /\ \A c \in 1..Len(calls) : calls[c].ret = "throw" => calls[c].wrote = <<>>
    /\ \A k \in 1..Len(script) :
          (CallbackFailsOn(script[k]) /\ fed >= FrameEnd(k)) =>
              LET ref == feed(FreshState,
                              SubSeq(Stream, 1, FrameEnd(k - 1))
                              \o SubSeq(Stream, FrameEnd(k) + 1, fed))
              IN  /\ proxy = "running"
                  /\ calls[k].ret = "throw"
                  /\ calls[k].msg = ExpectedMessage(script[k])
                  /\ stdout = ref.stdout
                  /\ buffer = ref.buffer
                  /\ contentLength = ref.contentLength
                  /\ Len(calls) = Len(ref.calls) + 1
                  /\ fed = FrameEnd(k) =>
                        (buffer = <<>> /\ contentLength = Null)

\* One chunk held a publishDiagnostics frame without params and a frame
\* behind it: on the severity path the callback failed on the first and the
\* second was written.
FrameBehindFailedCallback ==
    /\ ~config.dropAll
    /\ Len(script) = 2
    /\ wholeFrames = 2
    /\ Len(calls) = 2
    /\ calls[1].ret = "throw"
    /\ IsPd(calls[1].msg)
    /\ Len(stdout) = 1

====
